---- MODULE Spec2Model ----
(***************************************************************************)
(* Selection and navigation engine of the JSON tree editor                 *)
(* (src/src/logic/selection.js).                                           *)
(*                                                                         *)
(* A JSON value is a record whose only field names its kind:               *)
(*   [num |-> n]  [str |-> s]  [items |-> <<v0, v1, ...>>]                  *)
(*   [props |-> << [k |-> "name", v |-> value], ... >>]   (definition order)*)
(*   [undefined |-> TRUE]      (JavaScript undefined)                      *)
(* A path is a sequence of keys; a key is [key |-> "name"] (object          *)
(* property) or [idx |-> i] (array index, counted from 0 as in the code).  *)
(***************************************************************************)
EXTENDS Integers, Sequences, FiniteSets, TLC

VARIABLES json, state, selection, call, result

vars == <<json, state, selection, call, result>>

(***************************************************************************)
(* Bounds of the model                                                     *)
(***************************************************************************)
NumDocs == 4
NumOrders == 2
MaxOps == 2

(***************************************************************************)
(* JSON values and paths                                                   *)
(***************************************************************************)
Num(n) == [num |-> n]
Str(s) == [str |-> s]
Arr(items) == [items |-> items]
Obj(props) == [props |-> props]
P(k, v) == [k |-> k, v |-> v]
Undefined == [undefined |-> TRUE]

K(s) == [key |-> s]
I(i) == [idx |-> i]

isKeyName(k) == "key" \in DOMAIN k
isIndex(k) == "idx" \in DOMAIN k

isDefined(v) == "undefined" \notin DOMAIN v
isArray(v) == "items" \in DOMAIN v
isObject(v) == "props" \in DOMAIN v
isObjectOrArray(v) == isObject(v) \/ isArray(v)

\* JavaScript truthiness of a JSON value (0 and "" are falsy)
truthy(v) ==
  IF ~isDefined(v) THEN FALSE
  ELSE IF "num" \in DOMAIN v THEN v.num # 0
  ELSE IF "str" \in DOMAIN v THEN v.str # ""
  ELSE TRUE

propNames(v) == [i \in 1..Len(v.props) |-> v.props[i].k]

\* value[key] of JavaScript
child(v, k) ==
  IF isObject(v) /\ isKeyName(k)
    THEN IF \E i \in 1..Len(v.props) : v.props[i].k = k.key
           THEN v.props[CHOOSE i \in 1..Len(v.props) : v.props[i].k = k.key].v
           ELSE Undefined
  ELSE IF isArray(v) /\ isIndex(k)
    THEN IF k.idx >= 0 /\ k.idx < Len(v.items) THEN v.items[k.idx + 1] ELSE Undefined
  ELSE Undefined

RECURSIVE getIn(_, _)
getIn(v, path) ==
  IF path = <<>> THEN v ELSE getIn(child(v, Head(path)), Tail(path))

first(s) == s[1]
last(s) == s[Len(s)]
initial(s) == IF Len(s) = 0 THEN <<>> ELSE SubSeq(s, 1, Len(s) - 1)
isEmpty(s) == Len(s) = 0

\* Array.prototype.indexOf, 0-based, -1 when absent
indexOf(s, x) ==
  IF \E i \in 1..Len(s) : s[i] = x
    THEN (CHOOSE i \in 1..Len(s) : s[i] = x /\ \A j \in 1..(i - 1) : s[j] # x) - 1
    ELSE -1

Min(a, b) == IF a <= b THEN a ELSE b
Max(a, b) == IF a >= b THEN a ELSE b

(***************************************************************************)
(* JSON pointers (immutable-json-patch) and path utilities                 *)
(***************************************************************************)
segment(k) ==
  IF isKeyName(k) THEN k.key
  ELSE IF isIndex(k) THEN ToString(k.idx)
  ELSE "undefined"

RECURSIVE compileJSONPointer(_)
compileJSONPointer(path) ==
  IF path = <<>> THEN ""
  ELSE "/" \o segment(Head(path)) \o compileJSONPointer(Tail(path))

pointers(paths) == [i \in 1..Len(paths) |-> compileJSONPointer(paths[i])]

RECURSIVE sharedLength(_, _, _)
sharedLength(path1, path2, i) ==
  IF i < Len(path1) /\ i < Len(path2) /\ path1[i + 1] = path2[i + 1]
    THEN sharedLength(path1, path2, i + 1)
    ELSE i

\* mutant: the longer of the two paths is taken for the shared one
longerPath(path1, path2) == IF Len(path1) >= Len(path2) THEN path1 ELSE path2

findSharedPath(path1, path2) == SubSeq(path1, 1, sharedLength(path1, path2, 0))

pathStartsWith(path, parentPath) ==
  IF Len(path) < Len(parentPath) THEN FALSE
  ELSE \A i \in 1..Len(parentPath) : path[i] = parentPath[i]

(***************************************************************************)
(* View state: per container an expanded flag, per object the display      *)
(* order of its keys, and the states of the children.                      *)
(***************************************************************************)
stateChild(st, k) ==
  IF isDefined(st) /\ k \in DOMAIN st.children THEN st.children[k] ELSE Undefined

RECURSIVE getInState(_, _)
getInState(st, path) ==
  IF path = <<>> THEN st ELSE getInState(stateChild(st, Head(path)), Tail(path))

\* setIn(state, path.concat(STATE_EXPANDED), flag, true)
RECURSIVE setExpanded(_, _, _)
setExpanded(st, path, flag) ==
  IF ~isDefined(st) THEN st
  ELSE IF path = <<>> THEN [st EXCEPT !.expanded = flag]
  ELSE IF Head(path) \in DOMAIN st.children
    THEN [st EXCEPT !.children[Head(path)] = setExpanded(@, Tail(path), flag)]
    ELSE st

stateKeys(st) == IF isDefined(st) /\ "keys" \in DOMAIN st THEN st.keys ELSE <<>>

keyRecords(names) == [i \in 1..Len(names) |-> K(names[i])]
indexRecords(n) == [i \in 1..n |-> I(i - 1)]

(***************************************************************************)
(* Visibility provider (documentState.js)                                  *)
(***************************************************************************)
RECURSIVE visiblePathsFrom(_, _, _)
RECURSIVE visiblePathsOf(_, _, _, _)
visiblePathsFrom(value, st, path) ==
  <<path>> \o
    (IF truthy(value) /\ isDefined(st) /\ st.expanded
       THEN IF isArray(value)
              THEN visiblePathsOf(value, st, path, indexRecords(Len(value.items)))
              ELSE visiblePathsOf(value, st, path, keyRecords(stateKeys(st)))
       ELSE <<>>)

visiblePathsOf(value, st, path, ks) ==
  IF ks = <<>> THEN <<>>
  ELSE visiblePathsFrom(child(value, Head(ks)), stateChild(st, Head(ks)), Append(path, Head(ks)))
         \o visiblePathsOf(value, st, path, Tail(ks))

getVisiblePaths(j, st) == visiblePathsFrom(j, st, <<>>)

Caret(path, type) == [path |-> path, type |-> type]

RECURSIVE caretsFrom(_, _, _)
RECURSIVE caretsOf(_, _, _, _)
caretsFrom(value, st, path) ==
  <<Caret(path, "value")>> \o
    (IF truthy(value) /\ isDefined(st) /\ st.expanded
       THEN <<Caret(path, "inside")>> \o
            (IF isArray(value)
               THEN caretsOf(value, st, path, indexRecords(Len(value.items)))
               ELSE caretsOf(value, st, path, keyRecords(stateKeys(st))))
       ELSE <<>>)

caretsOf(value, st, path, ks) ==
  IF ks = <<>> THEN <<>>
  ELSE LET p == Append(path, Head(ks)) IN
       (IF isArray(value) THEN <<>> ELSE <<Caret(p, "key")>>)
         \o caretsFrom(child(value, Head(ks)), stateChild(st, Head(ks)), p)
         \o <<Caret(p, "after")>>
         \o caretsOf(value, st, path, Tail(ks))

getVisibleCaretPositions(j, st) == caretsFrom(j, st, <<>>)

NoPath == [null |-> TRUE]
isPath(r) == "null" \notin DOMAIN r
Found(p) == [path |-> p]

getPreviousVisiblePath(j, st, path) ==
  LET at(visiblePaths, index) ==
        IF index # -1 /\ index > 0 THEN Found(visiblePaths[index]) ELSE NoPath
      find(visiblePaths) ==
        at(visiblePaths, indexOf(pointers(visiblePaths), compileJSONPointer(path)))
  IN find(getVisiblePaths(j, st))

getNextVisiblePath(j, st, path) ==
  LET at(visiblePaths, index) ==
        IF index # -1 /\ index < Len(visiblePaths) - 1
          THEN Found(visiblePaths[index + 2]) ELSE NoPath
      find(visiblePaths) ==
        at(visiblePaths, indexOf(pointers(visiblePaths), compileJSONPointer(path)))
  IN find(getVisiblePaths(j, st))

(***************************************************************************)
(* Outcomes of a call: a selection, null, a list of paths, or a thrown     *)
(* error.                                                                  *)
(***************************************************************************)
Null == [kind |-> "null"]
Sel(s) == [kind |-> "selection", selection |-> s]
Paths(ps) == [kind |-> "paths", paths |-> ps]
Throw(e, m) == [kind |-> "throw", error |-> e, message |-> m]

isSel(r) == r.kind = "selection"
isThrow(r) == r.kind = "throw"

Merge(r1, r2) ==
  [x \in DOMAIN r1 \cup DOMAIN r2 |-> IF x \in DOMAIN r2 THEN r2[x] ELSE r1[x]]

Single(type, path) == [type |-> type, anchorPath |-> path, focusPath |-> path]

(***************************************************************************)
(* expandSelection                                                         *)
(***************************************************************************)
RECURSIVE range(_, _)
range(startIndex, endIndex) ==
  IF startIndex <= endIndex
    THEN <<startIndex>> \o range(startIndex + 1, endIndex)
    ELSE <<>>

\* mutant: the loop stops before endIndex (i < endIndex)
objectRangeOpen(sharedPath, keys, anchorIndex, focusIndex) ==
  LET startIndex == Min(anchorIndex, focusIndex)
      endIndex == Max(anchorIndex, focusIndex)
      is == range(startIndex, endIndex - 1)
  IN [n \in 1..Len(is) |-> Append(sharedPath, K(keys[is[n] + 1]))]

objectRange(sharedPath, keys, anchorIndex, focusIndex) ==
  LET startIndex == Min(anchorIndex, focusIndex)
      endIndex == Max(anchorIndex, focusIndex)
      is == range(startIndex, endIndex)
  IN [n \in 1..Len(is) |-> Append(sharedPath, K(keys[is[n] + 1]))]

\* mutant: the loop runs from the anchor key to the focus key, without
\* Math.min / Math.max
arrayRangeDirected(sharedPath, anchorKey, focusKey) ==
  IF isIndex(anchorKey) /\ isIndex(focusKey)
    THEN LET is == range(anchorKey.idx, focusKey.idx)
         IN [n \in 1..Len(is) |-> Append(sharedPath, I(is[n]))]
    ELSE <<>>

\* Math.min / Math.max of a key that is no number give NaN, and the loop
\* i <= NaN does not run
arrayRange(sharedPath, anchorKey, focusKey) ==
  IF isIndex(anchorKey) /\ isIndex(focusKey)
    THEN LET startIndex == Min(anchorKey.idx, focusKey.idx)
             endIndex == Max(anchorKey.idx, focusKey.idx)
             is == range(startIndex, endIndex)
         IN [n \in 1..Len(is) |-> Append(sharedPath, I(is[n]))]
    ELSE <<>>

failedToCreate == Throw("Error", "Failed to create selection")

keyLookup(keys, key) == IF isKeyName(key) THEN indexOf(keys, key.key) ELSE -1

\* mutant: a key that is not in the stored key order gives an empty range
\* instead of the error
expandObjectLenient(st, sharedPath, anchorKey, focusKey) ==
  LET node == getInState(st, sharedPath) IN
  IF ~isDefined(node) \/ "keys" \notin DOMAIN node
    THEN Throw("TypeError", "Cannot read properties of undefined")
    ELSE LET keys == node.keys
             anchorIndex == keyLookup(keys, anchorKey)
             focusIndex == keyLookup(keys, focusKey)
         IN IF anchorIndex # -1 /\ focusIndex # -1
              THEN Paths(objectRange(sharedPath, keys, anchorIndex, focusIndex))
              ELSE Paths(<<>>)

expandObject(st, sharedPath, anchorKey, focusKey) ==
  LET node == getInState(st, sharedPath) IN
  IF ~isDefined(node) \/ "keys" \notin DOMAIN node
    THEN Throw("TypeError", "Cannot read properties of undefined")
    ELSE LET keys == node.keys
             anchorIndex == keyLookup(keys, anchorKey)
             focusIndex == keyLookup(keys, focusKey)
         IN IF anchorIndex # -1 /\ focusIndex # -1
              THEN Paths(objectRange(sharedPath, keys, anchorIndex, focusIndex))
              ELSE failedToCreate

expandSelection(j, st, anchorPath, focusPath) ==
  IF anchorPath = focusPath THEN Paths(<<anchorPath>>)
  ELSE LET sharedPath == findSharedPath(anchorPath, focusPath) IN
    IF Len(anchorPath) = Len(sharedPath) \/ Len(focusPath) = Len(sharedPath)
      THEN Paths(<<sharedPath>>)
      ELSE LET anchorKey == anchorPath[Len(sharedPath) + 1]
               focusKey == focusPath[Len(sharedPath) + 1]
               value == getIn(j, sharedPath)
           IN IF isObject(value) THEN expandObject(st, sharedPath, anchorKey, focusKey)
              ELSE IF isArray(value) THEN Paths(arrayRange(sharedPath, anchorKey, focusKey))
              ELSE failedToCreate

getParentPath(sel) ==
  IF sel.type = "inside" THEN sel.focusPath ELSE initial(sel.focusPath)

createPathsMap(paths) == {compileJSONPointer(paths[i]) : i \in 1..Len(paths)}

(***************************************************************************)
(* createSelection and the navigation functions                            *)
(***************************************************************************)
RECURSIVE createSelection(_, _, _)

Multi(anchorPath, focusPath) ==
  [type |-> "multi", anchorPath |-> anchorPath, focusPath |-> focusPath]

\* mutant: the Value branch of Up returns a Key selection
upValueAsKey(previousPath) == Sel(Single("key", previousPath))

upValue(previousPath) == Sel(Single("value", previousPath))

\* mutant: Up on After/Inside moves to the previous visible path at once
upAfterInsideMoves(j, st, sel) ==
  LET previousPath == getPreviousVisiblePath(j, st, sel.focusPath).path IN
  createSelection(j, st, Multi(previousPath, previousPath))

upAfterInside(j, st, sel) ==
  createSelection(j, st, Multi(sel.focusPath, sel.focusPath))

getSelectionUp(j, st, sel, keepAnchorPath) ==
  LET step(previousPath) ==
        IF keepAnchorPath
          THEN IF sel.type = "after" \/ sel.type = "inside"
                 THEN createSelection(j, st, Multi(sel.anchorPath, sel.anchorPath))
                 ELSE createSelection(j, st, Multi(sel.anchorPath, previousPath))
        ELSE IF sel.type = "key"
          THEN IF isArray(getIn(j, initial(previousPath))) \/ isEmpty(previousPath)
                 THEN Sel(Single("value", previousPath))
                 ELSE Sel(Single("key", previousPath))
        ELSE IF sel.type = "value" THEN upValue(previousPath)
        ELSE IF sel.type = "after" \/ sel.type = "inside" THEN upAfterInside(j, st, sel)
        ELSE createSelection(j, st, Multi(previousPath, previousPath))
      from(previous) == IF ~isPath(previous) THEN Null ELSE step(previous.path)
  IN from(getPreviousVisiblePath(j, st, sel.focusPath))

\* mutant: the view state is handed on without collapsing the focus path
notCollapsed(j, st, focusPath) == st

collapsed(j, st, focusPath) ==
  IF isObjectOrArray(getIn(j, focusPath)) THEN setExpanded(st, focusPath, FALSE) ELSE st

\* mutant: Down from a Value selects the first element below the next path
downValueBelow(nextPath) == Sel(Single("value", Append(nextPath, I(0))))

\* mutant: the Value branch of Down goes back to the root
downValueAtRoot(nextPath) == Sel(Single("value", <<>>))

downValue(nextPath) == Sel(Single("value", nextPath))

\* mutant: the range is rebuilt from the focus path instead of the anchor
extendDownFromFocus(j, st, sel, nextPathAfter) ==
  createSelection(j, st, Multi(sel.focusPath, nextPathAfter))

extendDown(j, st, sel, nextPathAfter) ==
  createSelection(j, st, Multi(sel.anchorPath, nextPathAfter))

getSelectionDown(j, st, sel, keepAnchorPath) ==
  LET extend(nextPath, nextAfter) ==
        IF ~isPath(nextAfter) THEN Null
        ELSE IF sel.type = "after"
          THEN createSelection(j, st, Multi(nextAfter.path, nextAfter.path))
        ELSE IF sel.type = "inside"
          THEN createSelection(j, st, Multi(nextPath, nextPath))
        ELSE extendDown(j, st, sel, nextAfter.path)
      step(nextPath) ==
        IF keepAnchorPath
          THEN extend(nextPath,
                      getNextVisiblePath(j, collapsed(j, st, sel.focusPath), sel.focusPath))
        ELSE IF sel.type = "key"
          THEN IF isArray(getIn(j, initial(nextPath)))
                 THEN Sel(Single("value", nextPath))
                 ELSE Sel(Single("key", nextPath))
        ELSE IF sel.type = "value" THEN downValue(nextPath)
        ELSE createSelection(j, st, Multi(nextPath, nextPath))
      from(next) == IF ~isPath(next) THEN Null ELSE step(next.path)
  IN from(getNextVisiblePath(j, st, sel.focusPath))

\* [last(path)] of an empty path is [undefined]
lastKey(path) == IF isEmpty(path) THEN Undefined ELSE last(path)

getSelectionNextInside(j, st, sel) ==
  LET path == sel.focusPath
      parentPath == initial(path)
      childPath == <<lastKey(path)>>
      select(nextPathInside) ==
        IF isPath(nextPathInside)
          THEN createSelection(j, st, [type |-> "value", path |-> parentPath \o nextPathInside.path])
          ELSE createSelection(j, st, [type |-> "after", path |-> path])
  IN select(getNextVisiblePath(getIn(j, parentPath), getInState(st, parentPath), childPath))

\* the 0-based index of the caret stop of the selection, or -1
caretIndex(carets, sel) ==
  IF \E i \in 1..Len(carets) : carets[i].path = sel.focusPath /\ carets[i].type = sel.type
    THEN (CHOOSE i \in 1..Len(carets) :
            /\ carets[i].path = sel.focusPath /\ carets[i].type = sel.type
            /\ \A n \in 1..(i - 1) :
                 ~(carets[n].path = sel.focusPath /\ carets[n].type = sel.type)) - 1
    ELSE -1

NoCaret == [null |-> TRUE]

\* mutant: the previous caret stop is always the first one of the document
findCaretAndFirst(j, st, sel) ==
  LET around(visibleCaretPositions, index) ==
        [caret |-> IF index # -1 THEN visibleCaretPositions[index + 1] ELSE NoCaret,
         previous |-> IF index # -1 /\ index > 0
                        THEN visibleCaretPositions[1] ELSE NoCaret,
         next |-> IF index # -1 /\ index < Len(visibleCaretPositions) - 1
                    THEN visibleCaretPositions[index + 2] ELSE NoCaret]
      find(visibleCaretPositions) ==
        around(visibleCaretPositions, caretIndex(visibleCaretPositions, sel))
  IN find(getVisibleCaretPositions(j, st))

findCaretAndSiblings(j, st, sel) ==
  LET around(visibleCaretPositions, index) ==
        [caret |-> IF index # -1 THEN visibleCaretPositions[index + 1] ELSE NoCaret,
         previous |-> IF index # -1 /\ index > 0
                        THEN visibleCaretPositions[index] ELSE NoCaret,
         next |-> IF index # -1 /\ index < Len(visibleCaretPositions) - 1
                    THEN visibleCaretPositions[index + 2] ELSE NoCaret]
      find(visibleCaretPositions) ==
        around(visibleCaretPositions, caretIndex(visibleCaretPositions, sel))
  IN find(getVisibleCaretPositions(j, st))

getSelectionLeft(j, st, sel, keepAnchorPath) ==
  LET step(found) ==
        IF keepAnchorPath
          THEN IF sel.type # "multi"
                 THEN createSelection(j, st, Multi(sel.anchorPath, sel.focusPath))
                 ELSE Null
        ELSE IF isPath(found.caret) /\ isPath(found.previous)
          THEN createSelection(j, st, [type |-> found.previous.type,
                                       path |-> found.previous.path])
        ELSE LET parent == getIn(j, initial(sel.focusPath)) IN
          IF sel.type = "value" /\ isArray(parent)
            THEN createSelection(j, st, Multi(sel.focusPath, sel.focusPath))
          ELSE IF sel.type = "multi" /\ ~isArray(parent)
            THEN createSelection(j, st, [type |-> "key", path |-> sel.focusPath])
          ELSE Null
  IN step(findCaretAndSiblings(j, st, sel))

getSelectionRight(j, st, sel, keepAnchorPath) ==
  LET step(found) ==
        IF keepAnchorPath
          THEN IF sel.type # "multi"
                 THEN createSelection(j, st, Multi(sel.anchorPath, sel.focusPath))
                 ELSE Null
        ELSE IF isPath(found.caret) /\ isPath(found.next)
          THEN createSelection(j, st, [type |-> found.next.type, path |-> found.next.path])
        ELSE IF sel.type = "multi"
          THEN createSelection(j, st, [type |-> "value", path |-> sel.focusPath])
        ELSE Null
  IN step(findCaretAndSiblings(j, st, sel))

getInitialSelection(j, st) ==
  LET select(path) ==
        IF Len(path) = 0 \/ isArray(getIn(j, initial(path)))
          THEN Single("value", path)
          ELSE Single("key", path)
      \* the first index whose successor is not deeper (or the last index)
      deepest(visiblePaths) ==
        visiblePaths[CHOOSE i \in 1..Len(visiblePaths) :
          /\ ~(i < Len(visiblePaths) /\ Len(visiblePaths[i + 1]) > Len(visiblePaths[i]))
          /\ \A n \in 1..(i - 1) : Len(visiblePaths[n + 1]) > Len(visiblePaths[n])]
  IN select(deepest(getVisiblePaths(j, st)))

focusPathLast(anchorPath, focusPath, paths) ==
  IF paths = <<>> THEN FALSE
  ELSE focusPath = last(paths) \/ anchorPath = first(paths)

schemaType(schema) == IF "type" \in DOMAIN schema THEN schema.type ELSE "undefined"
schemaFlag(schema, name) == IF name \in DOMAIN schema THEN schema[name] ELSE FALSE
schemaPath(schema) ==
  IF "path" \in DOMAIN schema
    THEN [anchorPath |-> schema.path, focusPath |-> schema.path]
    ELSE [x \in {} |-> x]

keyNext(sel) == [sel EXCEPT !.type = "value"]

\* mutant: the requested anchorPath and focusPath are kept as they are given
createRangeAsGiven(anchorPath, focusPath, paths) ==
  [type |-> "multi",
   anchorPath |-> anchorPath,
   focusPath |-> focusPath,
   paths |-> paths,
   pathsMap |-> createPathsMap(paths)]

createRange(anchorPath, focusPath, paths) ==
  IF paths = <<>>
    THEN [type |-> "multi", paths |-> paths, pathsMap |-> createPathsMap(paths)]
    ELSE LET focusLast == focusPathLast(anchorPath, focusPath, paths) IN
         [type |-> "multi",
          anchorPath |-> IF focusLast THEN first(paths) ELSE last(paths),
          focusPath |-> IF focusLast THEN last(paths) ELSE first(paths),
          paths |-> paths,
          pathsMap |-> createPathsMap(paths)]

\* selection = result || selection; an error thrown by the call propagates
orKeep(r, sel) == IF isSel(r) \/ isThrow(r) THEN r ELSE Sel(sel)

\* without a path the visible-path lookup dereferences undefined
noPath == Throw("TypeError", "Cannot read properties of undefined")

createSelection(j, st, schema) ==
  LET type == schemaType(schema)
      edit == schemaFlag(schema, "edit")
      next == schemaFlag(schema, "next")
      nextInside == schemaFlag(schema, "nextInside")
      withNext(sel) ==
        IF ~next THEN Sel(sel)
        ELSE IF "path" \in DOMAIN schema
          THEN orKeep(getSelectionDown(j, st, sel, FALSE), sel)
          ELSE noPath
      withNextInside(r) ==
        IF isThrow(r) \/ ~nextInside THEN r
        ELSE IF "path" \in DOMAIN schema
          THEN orKeep(getSelectionNextInside(j, st, r.selection), r.selection)
          ELSE noPath
      ranged(expanded) ==
        IF isThrow(expanded) THEN expanded
        ELSE Sel(createRange(schema.anchorPath, schema.focusPath, expanded.paths))
  IN
  IF type = "key"
    THEN LET sel == Merge([type |-> "key", edit |-> edit], schemaPath(schema))
         IN Sel(IF next THEN keyNext(sel) ELSE sel)
  ELSE IF type = "value"
    THEN withNextInside(withNext(Merge([type |-> "value", edit |-> edit], schemaPath(schema))))
  ELSE IF type = "after" \/ type = "inside"
    THEN Sel(Merge([type |-> type], schemaPath(schema)))
  ELSE IF "anchorPath" \in DOMAIN schema /\ "focusPath" \in DOMAIN schema
    THEN ranged(expandSelection(j, st, schema.anchorPath, schema.focusPath))
  ELSE Throw("TypeError", "Unknown type of selection")

(***************************************************************************)
(* createSelectionFromOperations.  A JSON pointer is kept as the sequence  *)
(* of its segments: "/arr/1" is <<"arr", "1">>.                            *)
(***************************************************************************)
MaxIndex == 9

isArrayIndex(section) == \E n \in 0..MaxIndex : ToString(n) = section
parseInt(section) == CHOOSE n \in 0..MaxIndex : ToString(n) = section

RECURSIVE parseSections(_, _, _)
parseSections(j, pointer, path) ==
  IF Len(path) = Len(pointer) THEN path
  ELSE LET section == pointer[Len(path) + 1] IN
       parseSections(j, pointer,
         Append(path, IF isArrayIndex(section) /\ isArray(getIn(j, path))
                        THEN I(parseInt(section)) ELSE K(section)))

parseJSONPointerWithArrayIndices(j, pointer) == parseSections(j, pointer, <<>>)

isRename(operations) ==
  /\ ~isEmpty(operations)
  /\ \A i \in 1..Len(operations) : operations[i].op = "move"
  /\ first(operations).from # first(operations).path
  /\ \A i \in 2..Len(operations) : operations[i].from = operations[i].path

\* mutant: a remove operation is not filtered out
selectsRemoved(operation) ==
  /\ operation.op # "test"
  /\ (operation.op # "move" \/ operation.from # operation.path)

selects(operation) ==
  /\ operation.op # "test"
  /\ operation.op # "remove"
  /\ (operation.op # "move" \/ operation.from # operation.path)

\* mutant: the replaced value is left in edit mode
replacedValueEditing(path) == Sel(Merge(Single("value", path), [edit |-> TRUE]))

\* the selection of a replaced value
replacedValue(path) == Sel(Merge(Single("value", path), [edit |-> FALSE]))

\* the selection of a renamed key
renamedKey(path) == Sel(Merge(Single("key", path), [edit |-> FALSE]))

createSelectionFromOperations(j, operations) ==
  LET select(paths) ==
        IF isEmpty(paths) THEN Null
        ELSE Sel([type |-> "multi",
                  paths |-> paths,
                  anchorPath |-> first(paths),
                  focusPath |-> last(paths),
                  pathsMap |-> createPathsMap(paths)])
      parse(kept) ==
        [i \in 1..Len(kept) |-> parseJSONPointerWithArrayIndices(j, kept[i].path)]
  IN
  IF Len(operations) = 1 /\ first(operations).op \in {"replace", "move"}
    THEN replacedValue(parseJSONPointerWithArrayIndices(j, first(operations).path))
  ELSE IF isRename(operations)
    THEN renamedKey(parseJSONPointerWithArrayIndices(j, first(operations).path))
  ELSE select(parse(SelectSeq(operations, selects)))

removeEditModeFromSelection(sel) ==
  IF "edit" \in DOMAIN sel /\ sel.edit THEN [sel EXCEPT !.edit = FALSE] ELSE sel

(***************************************************************************)
(* selectionToPartialJson.  JSON.stringify(value, null, indentation) is     *)
(* written out: numbers and strings, and containers on one line for        *)
(* indentation 0 and one member per line otherwise.                        *)
(***************************************************************************)
RECURSIVE pad(_)
pad(n) == IF n <= 0 THEN "" ELSE " " \o pad(n - 1)

RECURSIVE join(_, _)
join(texts, separator) ==
  IF texts = <<>> THEN ""
  ELSE IF Len(texts) = 1 THEN texts[1]
  ELSE texts[1] \o separator \o join(Tail(texts), separator)

quote(s) == "\"" \o s \o "\""

\* the members of a container, one text each, between the brackets
wrap(open, members, close, indentation, level) ==
  IF members = <<>> THEN open \o close
  ELSE IF indentation = 0 THEN open \o join(members, ",") \o close
  ELSE open \o "\n" \o pad(indentation * (level + 1))
         \o join(members, ",\n" \o pad(indentation * (level + 1)))
         \o "\n" \o pad(indentation * level) \o close

RECURSIVE stringify(_, _, _)
stringify(value, indentation, level) ==
  IF ~isDefined(value) THEN "undefined"
  ELSE IF "num" \in DOMAIN value THEN ToString(value.num)
  ELSE IF "str" \in DOMAIN value THEN quote(value.str)
  ELSE IF isArray(value)
    THEN wrap("[",
              [n \in 1..Len(value.items) |-> stringify(value.items[n], indentation, level + 1)],
              "]", indentation, level)
  ELSE wrap("{",
            [n \in 1..Len(value.props) |->
               quote(value.props[n].k) \o (IF indentation = 0 THEN ":" ELSE ": ")
                 \o stringify(value.props[n].v, indentation, level + 1)],
            "}", indentation, level)

\* JSON.stringify of a key of a path, and of the last key of no path
stringifyKey(k) ==
  IF isKeyName(k) THEN quote(k.key)
  ELSE IF isIndex(k) THEN ToString(k.idx)
  ELSE "undefined"

Text(s) == [kind |-> "text", text |-> s]

\* JSON.stringify(undefined) is undefined, no string
stringified(value, indentation) ==
  IF isDefined(value) THEN Text(stringify(value, indentation, 0))
  ELSE [kind |-> "undefined"]

\* mutant: a single selected array item gets the comma too
itemsOfArrayAllSuffixed(j, sel, indentation) ==
  Text(join([n \in 1..Len(sel.paths) |->
               stringify(getIn(j, sel.paths[n]), indentation, 0) \o ","], "\n"))

itemsOfArray(j, sel, indentation) ==
  IF Len(sel.paths) = 1
    THEN stringified(getIn(j, first(sel.paths)), indentation)
    ELSE Text(join([n \in 1..Len(sel.paths) |->
                      stringify(getIn(j, sel.paths[n]), indentation, 0) \o ","], "\n"))

propertiesOfObject(j, sel, indentation) ==
  Text(join([n \in 1..Len(sel.paths) |->
               stringifyKey(lastKey(sel.paths[n])) \o ": "
                 \o stringify(getIn(j, sel.paths[n]), indentation, 0) \o ","], "\n"))

selectionToPartialJson(j, sel, indentation) ==
  IF sel.type = "key"
    THEN IF isEmpty(sel.focusPath) THEN [kind |-> "undefined"]
         ELSE Text(stringifyKey(last(sel.focusPath)))
  ELSE IF sel.type = "value"
    THEN stringified(getIn(j, sel.focusPath), indentation)
  ELSE IF sel.type = "multi"
    THEN IF isEmpty(sel.focusPath) THEN stringified(j, indentation)
         ELSE IF isArray(getIn(j, getParentPath(sel)))
           THEN itemsOfArray(j, sel, indentation)
           ELSE propertiesOfObject(j, sel, indentation)
  ELSE Null

(***************************************************************************)
(* Documents and view states                                               *)
(***************************************************************************)
Docs ==
  << Obj(<<P("arr", Arr(<<Num(2), Num(3), Num(1)>>)), P("name", Str("x"))>>),
     Obj(<<P("a", Obj(<<P("x", Num(1))>>)), P("b", Arr(<<Arr(<<Num(5)>>), Num(7)>>))>>),
     Arr(<<Obj(<<P("k", Num(1)), P("m", Num(0))>>), Num(2), Arr(<<>>)>>),
     Num(5),
     Obj(<<P("p", Obj(<<P("q", Obj(<<P("r", Num(1)), P("s", Str(""))>>))>>)),
           P("t", Num(2))>>) >>

DocSet == {Docs[i] : i \in 1..Min(NumDocs, Len(Docs))}

childKeys(v) ==
  IF isObject(v) THEN {K(v.props[i].k) : i \in 1..Len(v.props)}
  ELSE IF isArray(v) THEN {I(i - 1) : i \in 1..Len(v.items)}
  ELSE {}

RECURSIVE AllPaths(_, _)
AllPaths(v, path) ==
  {path} \cup UNION {AllPaths(child(v, k), Append(path, k)) : k \in childKeys(v)}

ContainerPaths(j) == {p \in AllPaths(j, <<>>) : isObjectOrArray(getIn(j, p))}
ObjectPaths(j) == {p \in AllPaths(j, <<>>) : isObject(getIn(j, p))}

reverse(s) == [i \in 1..Len(s) |-> s[Len(s) + 1 - i]]
rotate(s, n) == [i \in 1..Len(s) |-> s[((i - 1 + n) % Len(s)) + 1]]

\* the c-th display order of the keys: 0 is the order of definition
keyOrder(names, c) ==
  IF Len(names) = 0 THEN names
  ELSE IF c % 2 = 0 THEN rotate(names, c \div 2)
  ELSE reverse(rotate(names, c \div 2))

RECURSIVE MakeState(_, _, _, _)
MakeState(v, path, exp, ord) ==
  IF isObject(v)
    THEN [expanded |-> exp[path],
          keys |-> keyOrder(propNames(v), ord[path]),
          children |-> [k \in childKeys(v) |-> MakeState(child(v, k), Append(path, k), exp, ord)]]
  ELSE IF isArray(v)
    THEN [expanded |-> exp[path],
          children |-> [k \in childKeys(v) |-> MakeState(child(v, k), Append(path, k), exp, ord)]]
  ELSE Undefined

ViewStates(j) ==
  {MakeState(j, <<>>, exp, ord) :
     exp \in [ContainerPaths(j) -> BOOLEAN],
     ord \in [ObjectPaths(j) -> 0..(NumOrders - 1)]}

(***************************************************************************)
(* The editor: a document, its view state and the current selection; call  *)
(* and result record the last call of the API and what it returned.        *)
(***************************************************************************)
Init ==
  /\ json \in DocSet
  /\ state \in ViewStates(json)
  /\ selection = getInitialSelection(json, state)
  /\ call = [fn |-> "getInitialSelection"]
  /\ result = Sel(selection)

\* the caller keeps its selection when a call returns null or throws
stored(r) == IF isSel(r) THEN r.selection ELSE selection

Navigate(fn, r, keep) ==
  /\ call' = [fn |-> fn, selection |-> selection, keepAnchorPath |-> keep]
  /\ result' = r
  /\ selection' = stored(r)
  /\ UNCHANGED <<json, state>>

Up == \E keep \in BOOLEAN :
  Navigate("getSelectionUp", getSelectionUp(json, state, selection, keep), keep)

\* mutant: the expanded flag is cleared in the view state of the caller
leftBehindCollapsed(j, st, sel, keepAnchorPath) ==
  IF keepAnchorPath /\ isPath(getNextVisiblePath(j, st, sel.focusPath))
    THEN collapsed(j, st, sel.focusPath) ELSE st

\* the view state of the caller after getSelectionDown: setIn of
\* immutable-json-patch builds collapsedState as a new value and writes
\* nothing into its argument
leftBehind(j, st, sel, keepAnchorPath) == st

Down == \E keep \in BOOLEAN :
  /\ call' = [fn |-> "getSelectionDown", selection |-> selection, keepAnchorPath |-> keep]
  /\ result' = getSelectionDown(json, state, selection, keep)
  /\ selection' = stored(result')
  /\ state' = leftBehind(json, state, selection, keep)
  /\ UNCHANGED json

Left == \E keep \in BOOLEAN :
  Navigate("getSelectionLeft", getSelectionLeft(json, state, selection, keep), keep)

Right == \E keep \in BOOLEAN :
  Navigate("getSelectionRight", getSelectionRight(json, state, selection, keep), keep)

\* Paths a caller may hand in: the nodes of the document, a key that no
\* object has, and children of the scalars directly under the root
ScalarPaths(j) == {p \in AllPaths(j, <<>>) : ~isObjectOrArray(getIn(j, p))}

GhostPaths(j) ==
  {Append(p, K("zz")) : p \in ObjectPaths(j)}
    \cup {Append(p, k) : p \in {q \in ScalarPaths(j) : Len(q) = 1}, k \in {K("zz"), I(0)}}

PathInputs(j) == AllPaths(j, <<>>) \cup GhostPaths(j)

SingleSchemas(j) ==
  {[type |-> "key", path |-> p, edit |-> e, next |-> n] :
     p \in AllPaths(j, <<>>), e \in BOOLEAN, n \in BOOLEAN}
  \cup {[type |-> "value", path |-> p, edit |-> e, next |-> n, nextInside |-> i] :
     p \in AllPaths(j, <<>>), e \in BOOLEAN, n \in BOOLEAN, i \in BOOLEAN}
  \cup {[type |-> t, path |-> p] : t \in {"after", "inside"}, p \in AllPaths(j, <<>>)}

RangeSchemas(j) ==
  {[type |-> "multi", anchorPath |-> a, focusPath |-> f] :
     a \in PathInputs(j), f \in PathInputs(j)}

\* createSelection, expandSelection and createSelectionFromOperations do not
\* read the current selection: calling them from the state after
\* construction reaches every outcome they have
fresh == call.fn = "getInitialSelection"

Create == fresh /\ \E schema \in SingleSchemas(json) \cup RangeSchemas(json) :
  /\ call' = [fn |-> "createSelection", schema |-> schema]
  /\ result' = createSelection(json, state, schema)
  /\ selection' = stored(result')
  /\ UNCHANGED <<json, state>>

Expand == fresh /\ \E a \in PathInputs(json), f \in PathInputs(json) :
  /\ call' = [fn |-> "expandSelection", anchorPath |-> a, focusPath |-> f]
  /\ result' = expandSelection(json, state, a, f)
  /\ UNCHANGED <<json, state, selection>>

\* Operations a caller may hand in.  They address two nodes of the document
\* and, for a document that is an object, a key it does not have; a move
\* comes from its own target (a no-op) or from "/old"
toPointer(path) == [i \in 1..Len(path) |-> segment(path[i])]

fullyExpanded(j) ==
  MakeState(j, <<>>, [p \in ContainerPaths(j) |-> TRUE], [p \in ObjectPaths(j) |-> 0])

firstPointer(j) ==
  LET all == getVisiblePaths(j, fullyExpanded(j)) IN toPointer(all[Min(3, Len(all))])

lastPointer(j) ==
  LET all == getVisiblePaths(j, fullyExpanded(j)) IN toPointer(all[Len(all)])

OperationInputs(j) ==
  {[op |-> "replace", path |-> firstPointer(j)],
   [op |-> "remove", path |-> firstPointer(j)],
   [op |-> "move", path |-> firstPointer(j), from |-> firstPointer(j)],
   [op |-> "add", path |-> lastPointer(j)],
   [op |-> "test", path |-> lastPointer(j)],
   [op |-> "move", path |-> lastPointer(j), from |-> <<"old">>]}
  \cup (IF isObject(j) THEN {[op |-> "add", path |-> <<"zz">>]} ELSE {})

RECURSIVE OperationLists(_, _)
OperationLists(j, n) ==
  IF n = 0 THEN {<<>>}
  ELSE LET shorter == OperationLists(j, n - 1) IN
       shorter \cup {Append(ops, o) : ops \in shorter, o \in OperationInputs(j)}

FromOperations == fresh /\ \E operations \in OperationLists(json, MaxOps) :
  /\ call' = [fn |-> "createSelectionFromOperations", operations |-> operations]
  /\ result' = createSelectionFromOperations(json, operations)
  /\ selection' = stored(result')
  /\ UNCHANGED <<json, state>>

\* Requests of any shape a caller may hand to createSelection: a type
\* without a path, paths without a type, one path of the two, a type that
\* is none of the five.  What they return is looked at, not adopted as the
\* selection of the editor
ShapeTypes == {"key", "value", "after", "inside", "multi", "other"}

ShapeSchemas(j) ==
  {[type |-> t] : t \in ShapeTypes}
  \cup {[edit |-> FALSE]}
  \cup {[type |-> "value", next |-> n, nextInside |-> i] : n \in BOOLEAN, i \in BOOLEAN}
  \cup {[type |-> "other", path |-> p] : p \in AllPaths(j, <<>>)}
  \cup {[type |-> t, anchorPath |-> a] : t \in ShapeTypes, a \in AllPaths(j, <<>>)}
  \cup {[type |-> t, focusPath |-> f] : t \in ShapeTypes, f \in AllPaths(j, <<>>)}
  \cup {[type |-> t, anchorPath |-> a, focusPath |-> a] :
          t \in ShapeTypes, a \in AllPaths(j, <<>>)}
  \cup {[anchorPath |-> a, focusPath |-> f] : a \in AllPaths(j, <<>>), f \in AllPaths(j, <<>>)}

CreateAnyShape == fresh /\ \E schema \in ShapeSchemas(json) :
  /\ call' = [fn |-> "createSelection", schema |-> schema]
  /\ result' = createSelection(json, state, schema)
  /\ UNCHANGED <<json, state, selection>>

\* the indentations a caller asks for: none, and the default of two
Indentations == {0, 2}

ToPartialJson == \E indentation \in Indentations :
  /\ "focusPath" \in DOMAIN selection
  /\ call' = [fn |-> "selectionToPartialJson", selection |-> selection,
              indentation |-> indentation]
  /\ result' = selectionToPartialJson(json, selection, indentation)
  /\ UNCHANGED <<json, state, selection>>

Next ==
  \/ Up \/ Down \/ Left \/ Right
  \/ Create \/ CreateAnyShape \/ Expand \/ FromOperations
  \/ ToPartialJson

Spec == Init /\ [][Next]_vars

(***************************************************************************)
(* The query language adapter (jmespathQueryLanguage.js), as its tests     *)
(* show it.  A query is kept as its pipeline of stages, and queryText is   *)
(* the string createQuery returns; executeQuery runs the stages.           *)
(***************************************************************************)
user1 == Obj(<<P("_id", Str("1")), P("user", Obj(<<P("name", Str("Stuart")), P("age", Num(6))>>))>>)
user3 == Obj(<<P("_id", Str("3")), P("user", Obj(<<P("name", Str("Kevin")), P("age", Num(8))>>))>>)
user2 == Obj(<<P("_id", Str("2")), P("user", Obj(<<P("name", Str("Bob")), P("age", Num(7))>>))>>)

users == Arr(<<user1, user3, user2>>)
numbers == Arr(<<Num(2), Num(3), Num(1)>>)

\* parseString: a string of digits is a number, any other text stays a string
parseString(text) == IF isArrayIndex(text) THEN Num(parseInt(text)) ELSE Str(text)

\* a field path as it is written in a query: user.name, and @ for the item
fieldName(field) == IF field = <<>> THEN "@" ELSE join(field, ".")

filterStage(filter) ==
  [stage |-> "filter", field |-> filter.field, relation |-> filter.relation,
   value |-> parseString(filter.value)]

allStage == [stage |-> "all"]

\* mutant: the direction of the sort is not looked at
sortStageAscending(sort) ==
  [stage |-> "sort", field |-> sort.field, reversed |-> FALSE]

sortStage(sort) ==
  [stage |-> "sort", field |-> sort.field, reversed |-> sort.direction = "desc"]

projectionStage(projection) == [stage |-> "projection", fields |-> projection.fields]

createQuery(data, queryOptions) ==
  <<IF "filter" \in DOMAIN queryOptions THEN filterStage(queryOptions.filter) ELSE allStage>>
    \o (IF "sort" \in DOMAIN queryOptions THEN <<sortStage(queryOptions.sort)>> ELSE <<>>)
    \o (IF "projection" \in DOMAIN queryOptions
          THEN <<projectionStage(queryOptions.projection)>> ELSE <<>>)

\* the delimiter of a JSON literal in a query is the grave accent; a string
\* of this module cannot hold that character, so ^ is written for it
literalDelimiter == "^"

literal(value) == literalDelimiter \o stringify(value, 0, 0) \o literalDelimiter

\* the text of one stage; the projection is written onto the stage before
\* it, after a sort onto a new [*]
stageText(query, n) ==
  LET s == query[n] IN
  IF s.stage = "all" THEN "[*]"
  ELSE IF s.stage = "filter"
    THEN "[? " \o fieldName(s.field) \o " " \o s.relation \o " "
           \o literal(s.value) \o "]"
  ELSE IF s.stage = "sort"
    THEN IF s.reversed
           THEN " | reverse(sort_by(@, &" \o fieldName(s.field) \o "))"
           ELSE " | sort_by(@, &" \o fieldName(s.field) \o ")"
  ELSE (IF query[n - 1].stage = "sort" THEN " | [*]" ELSE "")
         \o (IF Len(s.fields) = 1
               THEN "." \o fieldName(s.fields[1])
               ELSE ".{" \o join([i \in 1..Len(s.fields) |->
                                    last(s.fields[i]) \o ": " \o fieldName(s.fields[i])], ", ")
                         \o "}")

queryText(query) == join([n \in 1..Len(query) |-> stageText(query, n)], "")

fieldOf(item, field) == getIn(item, [i \in 1..Len(field) |-> K(field[i])])

\* the order of the strings of the test data
Alphabet == <<"Bob", "Kevin", "Stuart">>

\* <= of two values of one kind; values of different kinds do not compare
lessOrEqual(a, b) ==
  IF "num" \in DOMAIN a /\ "num" \in DOMAIN b THEN a.num <= b.num
  ELSE IF "str" \in DOMAIN a /\ "str" \in DOMAIN b
    THEN indexOf(Alphabet, a.str) <= indexOf(Alphabet, b.str)
  ELSE FALSE

matches(item, s) ==
  IF s.relation = "==" THEN fieldOf(item, s.field) = s.value
  ELSE lessOrEqual(fieldOf(item, s.field), s.value)

RECURSIVE insertSorted(_, _, _)
insertSorted(item, sorted, field) ==
  IF sorted = <<>> THEN <<item>>
  ELSE IF lessOrEqual(fieldOf(Head(sorted), field), fieldOf(item, field))
         /\ fieldOf(Head(sorted), field) # fieldOf(item, field)
    THEN <<Head(sorted)>> \o insertSorted(item, Tail(sorted), field)
    ELSE <<item>> \o sorted

RECURSIVE sortBy(_, _)
sortBy(items, field) ==
  IF items = <<>> THEN <<>>
  ELSE insertSorted(items[Len(items)], sortBy(SubSeq(items, 1, Len(items) - 1), field), field)

projected(item, fields) ==
  IF Len(fields) = 1 THEN fieldOf(item, fields[1])
  ELSE Obj([i \in 1..Len(fields) |-> P(last(fields[i]), fieldOf(item, fields[i]))])

runStage(items, s) ==
  IF s.stage = "all" THEN items
  ELSE IF s.stage = "filter" THEN SelectSeq(items, LAMBDA item : matches(item, s))
  ELSE IF s.stage = "sort"
    THEN IF s.reversed THEN reverse(sortBy(items, s.field)) ELSE sortBy(items, s.field)
  ELSE [i \in 1..Len(items) |-> projected(items[i], s.fields)]

RECURSIVE runStages(_, _, _)
runStages(items, query, n) ==
  IF n > Len(query) THEN items ELSE runStages(runStage(items, query[n]), query, n + 1)

executeQuery(data, query) == Arr(runStages(data.items, query, 1))

\* the data of the caller after createQuery and executeQuery: the tests
\* compare it with a deep clone taken before the calls
untouched(data) == data

\* the requests of the tests and their combinations: on the users a filter
\* on name or age, a sort on age or name, a projection on one or two
\* fields; on the numbers a filter and a sort on the item itself
Filters(data) ==
  IF data = users
    THEN {[field |-> <<"user", "name">>, relation |-> "==", value |-> v] :
            v \in {"Bob", "Kevin"}}
         \cup {[field |-> <<"user", "age">>, relation |-> r, value |-> v] :
            r \in {"==", "<="}, v \in {"7", "8"}}
    ELSE {[field |-> <<>>, relation |-> r, value |-> v] : r \in {"==", "<="}, v \in {"1", "2"}}

Sorts(data) ==
  {[field |-> f, direction |-> d] :
     f \in (IF data = users THEN {<<"user", "age">>, <<"user", "name">>} ELSE {<<>>}),
     d \in {"asc", "desc"}}

Projections(data) ==
  IF data = users
    THEN {[fields |-> <<<<"user", "name">>>>], [fields |-> <<<<"user", "name">>, <<"_id">>>>]}
    ELSE {}

QueryOptions(data) ==
  {[none |-> TRUE]}
  \cup {[filter |-> f] : f \in Filters(data)}
  \cup {[sort |-> s] : s \in Sorts(data)}
  \cup {[projection |-> p] : p \in Projections(data)}
  \cup {[filter |-> f, sort |-> s] : f \in Filters(data), s \in Sorts(data)}
  \cup {[filter |-> f, projection |-> p] : f \in Filters(data), p \in Projections(data)}
  \cup {[sort |-> s, projection |-> p] : s \in Sorts(data), p \in Projections(data)}
  \cup {[filter |-> f, sort |-> s, projection |-> p] :
          f \in Filters(data), s \in Sorts(data), p \in Projections(data)}

QueryInit ==
  /\ json \in {users, numbers}
  /\ state = Undefined
  /\ selection = Undefined
  /\ call = [fn |-> "describe"]
  /\ result = Null

CreateQuery == \E queryOptions \in QueryOptions(json) :
  /\ call' = [fn |-> "createQuery", queryOptions |-> queryOptions]
  /\ result' = [kind |-> "query", query |-> createQuery(json, queryOptions),
                text |-> queryText(createQuery(json, queryOptions))]
  /\ json' = untouched(json)
  /\ UNCHANGED <<state, selection>>

ExecuteQuery ==
  /\ call.fn = "createQuery"
  /\ call' = [fn |-> "executeQuery", queryOptions |-> call.queryOptions, query |-> result.query]
  /\ result' = [kind |-> "data", data |-> executeQuery(json, result.query)]
  /\ json' = untouched(json)
  /\ UNCHANGED <<state, selection>>

QueryNext == CreateQuery \/ ExecuteQuery

QuerySpec == QueryInit /\ [][QueryNext]_vars

\* Navigation only: json and view state fixed, the selection moved by
\* Up/Down/Left/Right from the initial selection
NavNext == Up \/ Down \/ Left \/ Right

NavSpec == Init /\ [][NavNext]_vars

(***************************************************************************)
(* Properties                                                              *)
(***************************************************************************)
navigation == {"getSelectionUp", "getSelectionDown", "getSelectionLeft", "getSelectionRight"}
vertical == {"getSelectionUp", "getSelectionDown"}

returned == result.selection

parentOf(path) == getIn(json, initial(path))

\* C1: no selection returned by a navigation step, by getInitialSelection or
\* by createSelectionFromOperations is a Key selection whose focus path is
\* the root or whose parent container is an array.
C1_KeyNeverForRootOrArrayItem ==
  (/\ call.fn \in navigation \cup {"getInitialSelection", "createSelectionFromOperations"}
   /\ isSel(result)
   /\ returned.type = "key")
  => (returned.focusPath # <<>> /\ ~isArray(parentOf(returned.focusPath)))

\* the position of the last key of a path in the order of its parent: the
\* view state's key order for an object, the index for an array
positionIn(path) ==
  LET k == last(path) IN
  IF isIndex(k) THEN k.idx
  ELSE indexOf(stateKeys(getInState(state, initial(path))), k.key)

isSiblingRange(sel) ==
  LET ps == sel.paths
      n == Len(ps)
  IN /\ n >= 1
     /\ \/ (sel.anchorPath = ps[1] /\ sel.focusPath = ps[n])
        \/ (sel.anchorPath = ps[n] /\ sel.focusPath = ps[1])
     /\ n > 1 =>
          /\ \A i \in 1..n : Len(ps[i]) >= 1 /\ initial(ps[i]) = initial(ps[1])
          /\ isObjectOrArray(parentOf(ps[1]))
          /\ \A i \in 1..n : positionIn(ps[i]) >= 0
          /\ \A i \in 1..(n - 1) : positionIn(ps[i + 1]) = positionIn(ps[i]) + 1

\* C2: every Multi selection returned by createSelection or by a navigation
\* step has as paths a closed range of siblings: one shared parent,
\* consecutive and ascending in the parent's order (view-state key order of
\* an object, index order of an array), with anchorPath and focusPath its
\* two ends.
C2_MultiIsSiblingRange ==
  (/\ call.fn \in navigation \cup {"createSelection"}
   /\ isSel(result)
   /\ returned.type = "multi")
  => isSiblingRange(returned)

\* C2 witness: an extending Down step has returned a range of three siblings.
C2_Witness ==
  /\ call.fn = "getSelectionDown"
  /\ call.keepAnchorPath
  /\ isSel(result)
  /\ returned.type = "multi"
  /\ Len(returned.paths) >= 3

noEdit(sel) == "edit" \notin DOMAIN sel \/ sel.edit = FALSE

\* C4: a selection returned by a navigation step, or by createSelection with
\* next or nextInside, whose type or focus path differs from the input or
\* requested selection does not have edit = true.
C4_EditClearedOnMove ==
  /\ (/\ call.fn \in navigation
      /\ isSel(result)
      /\ (returned.type # call.selection.type
            \/ returned.focusPath # call.selection.focusPath))
     => noEdit(returned)
  /\ (/\ call.fn = "createSelection"
      /\ "path" \in DOMAIN call.schema
      /\ (schemaFlag(call.schema, "next") \/ schemaFlag(call.schema, "nextInside"))
      /\ isSel(result)
      /\ (returned.type # call.schema.type \/ returned.focusPath # call.schema.path))
     => noEdit(returned)

input == call.selection

marker(sel) == sel.type = "after" \/ sel.type = "inside"

siblingsOrEqual(path1, path2) ==
  \/ path1 = path2
  \/ (Len(path1) = Len(path2) /\ Len(path1) >= 1 /\ initial(path1) = initial(path2))

strictDescendant(path, ancestor) ==
  Len(path) > Len(ancestor) /\ pathStartsWith(path, ancestor)

\* the visible paths of the current view state and the 1-based position of a
\* path among them (0 when it is not visible)
visibleNow == getVisiblePaths(json, state)
visibleIndex(path) == indexOf(visibleNow, path) + 1

\* the first visible path after `path`, leaving out its own subtree when
\* skipSubtree is set
visibleAfter(path, skipSubtree) ==
  LET i == visibleIndex(path)
      later == {n \in (i + 1)..Len(visibleNow) :
                  ~skipSubtree \/ ~strictDescendant(visibleNow[n], path)}
  IN IF i = 0 \/ later = {} THEN NoPath
     ELSE Found(visibleNow[CHOOSE n \in later : \A m \in later : n <= m])

visibleBefore(path) ==
  LET i == visibleIndex(path) IN
  IF i <= 1 THEN NoPath ELSE Found(visibleNow[i - 1])

extending == call.fn \in vertical /\ call.keepAnchorPath

stepping == call.fn \in vertical /\ ~call.keepAnchorPath

\* the selection a caller gets from the constructor carries an edit field
constructed(sel) == "edit" \in DOMAIN sel

\* the edit mode of a selection: an absent edit field counts as false
editMode(sel) == "edit" \in DOMAIN sel /\ sel.edit

\* C5 (as stated): after a non-extending Down from a Value selection made by
\* the constructor, a non-extending Up returns a selection with the type,
\* anchorPath, focusPath and edit mode of the original one.
C5_DownUpRestoresSelection ==
  (/\ call.fn = "getSelectionDown" /\ ~call.keepAnchorPath
   /\ input.type = "value" /\ constructed(input)
   /\ isSel(result))
  => LET back == getSelectionUp(json, state, returned, FALSE) IN
     /\ isSel(back)
     /\ back.selection.type = input.type
     /\ back.selection.anchorPath = input.anchorPath
     /\ back.selection.focusPath = input.focusPath
     /\ editMode(back.selection) = editMode(input)

\* C5 (amended): after a non-extending Down from a Value selection, a
\* non-extending Up returns a Value selection with the anchorPath and
\* focusPath of the original one and without an edit field, so it equals the
\* original one only when that was not in edit mode.
C5_DownUpRestoresPaths ==
  (/\ call.fn = "getSelectionDown" /\ ~call.keepAnchorPath
   /\ input.type = "value"
   /\ isSel(result))
  => getSelectionUp(json, state, returned, FALSE)
       = Sel([type |-> "value", anchorPath |-> input.anchorPath, focusPath |-> input.focusPath])

\* C5 witness: Down has moved a Value selection that was in edit mode.
C5_Witness ==
  /\ call.fn = "getSelectionDown" /\ ~call.keepAnchorPath
  /\ input.type = "value" /\ constructed(input) /\ input.edit
  /\ isSel(result)
  /\ returned.focusPath # input.focusPath

multiOver(path) ==
  /\ isSel(result)
  /\ returned.type = "multi"
  /\ returned.paths = <<path>>

expandedContainer(path) ==
  /\ isObjectOrArray(getIn(json, path))
  /\ isDefined(getInState(state, path))
  /\ getInState(state, path).expanded

outsideSubtree(sel, path) ==
  /\ ~strictDescendant(sel.anchorPath, path)
  /\ ~strictDescendant(sel.focusPath, path)
  /\ \A i \in 1..Len(sel.paths) : ~strictDescendant(sel.paths[i], path)

diverging(a, f) ==
  LET shared == findSharedPath(a, f) IN
  a # f /\ Len(a) > Len(shared) /\ Len(f) > Len(shared)

container(a, f) == getIn(json, findSharedPath(a, f))
divergingKey(path, other) == path[Len(findSharedPath(path, other)) + 1]

\* the key order the view state stores for the shared container
storedKeys(a, f) == stateKeys(getInState(state, findSharedPath(a, f)))

inStoredKeys(k, a, f) ==
  isKeyName(k) /\ \E i \in 1..Len(storedKeys(a, f)) : storedKeys(a, f)[i] = k.key

\* the position of a diverging key in the order of the shared container
rank(k, a, f) ==
  IF isIndex(k) THEN k.idx
  ELSE (CHOOSE i \in 1..Len(storedKeys(a, f)) : storedKeys(a, f)[i] = k.key) - 1

keyAt(n, a, f) ==
  IF isArray(container(a, f)) THEN I(n) ELSE K(storedKeys(a, f)[n + 1])

wellFormedRange(a, f) ==
  /\ diverging(a, f)
  /\ \/ /\ isObject(container(a, f))
        /\ inStoredKeys(divergingKey(a, f), a, f)
        /\ inStoredKeys(divergingKey(f, a), a, f)
     \/ /\ isArray(container(a, f))
        /\ isIndex(divergingKey(a, f))
        /\ isIndex(divergingKey(f, a))

\* C8: for two paths that diverge at sibling keys of a shared container p,
\* expandSelection returns exactly p+k for every k of the closed range between
\* the two keys, ascending in the view state's stored key order of an object
\* and in index order of an array.
C8_ExpandIsClosedRange ==
  (/\ call.fn = "expandSelection"
   /\ wellFormedRange(call.anchorPath, call.focusPath))
  => LET a == call.anchorPath
         f == call.focusPath
         lo == Min(rank(divergingKey(a, f), a, f), rank(divergingKey(f, a), a, f))
         hi == Max(rank(divergingKey(a, f), a, f), rank(divergingKey(f, a), a, f))
     IN /\ result.kind = "paths"
        /\ Len(result.paths) = hi - lo + 1
        /\ \A n \in 1..Len(result.paths) :
             result.paths[n] = Append(findSharedPath(a, f), keyAt(lo + n - 1, a, f))

\* C8 witness: a range of two or more keys of an object whose stored key order
\* is not the order of definition has been expanded.
C8_Witness ==
  /\ call.fn = "expandSelection"
  /\ wellFormedRange(call.anchorPath, call.focusPath)
  /\ isObject(container(call.anchorPath, call.focusPath))
  /\ storedKeys(call.anchorPath, call.focusPath)
       # propNames(container(call.anchorPath, call.focusPath))
  /\ result.kind = "paths"
  /\ Len(result.paths) >= 2

pathSet(r) == {r.paths[i] : i \in 1..Len(r.paths)}

\* C9: expandSelection(a, f) and expandSelection(f, a) both fail or both
\* return the same set of paths.
C9_ExpandSymmetric ==
  call.fn = "expandSelection"
  => LET swapped == expandSelection(json, state, call.focusPath, call.anchorPath) IN
     \/ (isThrow(result) /\ isThrow(swapped))
     \/ (result.kind = "paths" /\ swapped.kind = "paths" /\ pathSet(result) = pathSet(swapped))

\* C9 witness: a range whose anchor lies after its focus has been expanded
\* into two or more paths.
C9_Witness ==
  /\ call.fn = "expandSelection"
  /\ wellFormedRange(call.anchorPath, call.focusPath)
  /\ rank(divergingKey(call.anchorPath, call.focusPath), call.anchorPath, call.focusPath)
       > rank(divergingKey(call.focusPath, call.anchorPath), call.anchorPath, call.focusPath)
  /\ result.kind = "paths"
  /\ Len(result.paths) >= 2

\* a range request the claim calls ill-formed: the shared container is a
\* scalar, or it is an object and one of the two keys is not in its stored
\* key order
illFormedRange(a, f) ==
  /\ diverging(a, f)
  /\ \/ /\ isDefined(container(a, f))
        /\ ~isObjectOrArray(container(a, f))
     \/ /\ isObject(container(a, f))
        /\ (~inStoredKeys(divergingKey(a, f), a, f) \/ ~inStoredKeys(divergingKey(f, a), a, f))

\* the pair of paths an extending Up or Down step hands to createSelection
handsOver(fn, sel) ==
  IF fn = "getSelectionUp" THEN visibleBefore(sel.focusPath)
  ELSE visibleAfter(sel.focusPath, TRUE)

\* C10: expandSelection on an ill-formed range request throws "Failed to
\* create selection" and returns no paths; createSelection called with such
\* an anchorPath/focusPath pair, and an extending Up or Down step that hands
\* such a pair to createSelection, end in that same error.
C10_IllFormedRangeFails ==
  /\ (call.fn = "expandSelection" /\ illFormedRange(call.anchorPath, call.focusPath))
       => result = failedToCreate
  /\ (/\ call.fn = "createSelection"
      /\ "anchorPath" \in DOMAIN call.schema /\ "focusPath" \in DOMAIN call.schema
      /\ illFormedRange(call.schema.anchorPath, call.schema.focusPath))
       => result = failedToCreate
  /\ (/\ extending
      /\ ~marker(input)
      /\ isPath(visibleAfter(input.focusPath, FALSE)) \/ call.fn = "getSelectionUp"
      /\ isPath(handsOver(call.fn, input))
      /\ illFormedRange(input.anchorPath, handsOver(call.fn, input).path))
       => result = failedToCreate

\* C10 witness: an extending navigation step on a selection whose anchor is a
\* key missing from the stored key order has ended in the error.
C10_Witness ==
  /\ extending
  /\ isPath(handsOver(call.fn, input))
  /\ illFormedRange(input.anchorPath, handsOver(call.fn, input).path)
  /\ result = failedToCreate

\* the caret stops of the current view state
caretsNow == getVisibleCaretPositions(json, state)

atCaret(sel, n) ==
  /\ n >= 1 /\ n <= Len(caretsNow)
  /\ sel.focusPath = caretsNow[n].path
  /\ sel.type = caretsNow[n].type

sideways == call.fn \in {"getSelectionLeft", "getSelectionRight"} /\ ~call.keepAnchorPath

\* C11: a non-extending Left step on a selection at the first caret stop of
\* the document, and a non-extending Right step on a selection at the last
\* caret stop, return null and do not throw.
C11_SidewaysAtEndsIsNull ==
  /\ (sideways /\ call.fn = "getSelectionLeft" /\ atCaret(input, 1)) => result = Null
  /\ (sideways /\ call.fn = "getSelectionRight" /\ atCaret(input, Len(caretsNow)))
       => result = Null

\* C11, the part that holds: Right at the last caret stop returns null, and
\* Left at the first caret stop returns null unless the document is an array
C11_SidewaysAtEndsIsNullUnlessArrayRoot ==
  /\ (sideways /\ call.fn = "getSelectionLeft" /\ atCaret(input, 1) /\ ~isArray(json))
       => result = Null
  /\ (sideways /\ call.fn = "getSelectionLeft" /\ atCaret(input, 1) /\ isArray(json))
       => multiOver(<<>>)
  /\ (sideways /\ call.fn = "getSelectionRight" /\ atCaret(input, Len(caretsNow)))
       => result = Null

reconciling == call.fn = "createSelectionFromOperations"

\* a path is the target of a pointer when its keys spell the segments of the
\* pointer and every key under an array is an index
targets(path, pointer) ==
  /\ toPointer(path) = pointer
  /\ \A n \in 1..Len(path) :
       isIndex(path[n]) <=> (isArray(getIn(json, SubSeq(path, 1, n - 1)))
                               /\ isArrayIndex(pointer[n]))

\* C12: reconciliation of a list of exactly one operation that is a replace
\* or a move returns a Value selection whose anchorPath and focusPath are the
\* target path of the operation, with edit = false.
C12_SingleReplaceOrMoveIsValue ==
  (/\ reconciling
   /\ Len(call.operations) = 1
   /\ call.operations[1].op \in {"replace", "move"})
  => /\ isSel(result)
     /\ returned.type = "value"
     /\ returned.anchorPath = returned.focusPath
     /\ targets(returned.focusPath, call.operations[1].path)
     /\ "edit" \in DOMAIN returned /\ returned.edit = FALSE

\* C12 witness: a single replace on an element of an array has been
\* reconciled into a selection whose path ends in an index.
C12_Witness ==
  /\ reconciling
  /\ Len(call.operations) = 1
  /\ call.operations[1].op = "replace"
  /\ isSel(result)
  /\ returned.focusPath # <<>>
  /\ isIndex(last(returned.focusPath))

\* a key rename: one or more operations, all of them moves, the first with
\* differing source and destination, the others with equal ones
renames(operations) ==
  /\ Len(operations) >= 1
  /\ \A n \in 1..Len(operations) : operations[n].op = "move"
  /\ operations[1].from # operations[1].path
  /\ \A n \in 2..Len(operations) : operations[n].from = operations[n].path

\* C13: reconciliation of a key rename, the list of exactly one such move
\* included, returns a Key selection at the destination path of the first
\* operation.
C13_RenameIsKey ==
  (reconciling /\ renames(call.operations))
  => /\ isSel(result)
     /\ returned.type = "key"
     /\ returned.anchorPath = returned.focusPath
     /\ targets(returned.focusPath, call.operations[1].path)

\* C13, the part that holds: a key rename of two or more operations returns
\* the Key selection; a key rename of one operation returns a Value selection
C13_RenameOfTwoOrMoreIsKey ==
  (reconciling /\ renames(call.operations))
  => /\ isSel(result)
     /\ returned.type = (IF Len(call.operations) = 1 THEN "value" ELSE "key")
     /\ targets(returned.focusPath, call.operations[1].path)

\* the positions of the operations that touch a path: not a test, not a
\* remove, not a move onto its own source
touching(operations) ==
  {n \in 1..Len(operations) :
     /\ operations[n].op \notin {"test", "remove"}
     /\ ~(operations[n].op = "move" /\ operations[n].from = operations[n].path)}

singleReplaceOrMove(operations) ==
  Len(operations) = 1 /\ operations[1].op \in {"replace", "move"}

\* C14: when neither the single replace/move rule nor the rename rule
\* applies, reconciliation returns null when no operation touches a path (the
\* empty list included), and otherwise the Multi whose paths are the target
\* paths of the touching operations, one each and in the order of the
\* operations, with anchorPath the first and focusPath the last of them.
C14_OtherwiseCollectsTouchedPaths ==
  (/\ reconciling
   /\ ~singleReplaceOrMove(call.operations)
   /\ ~renames(call.operations))
  => LET kept == touching(call.operations) IN
     IF kept = {} THEN result = Null
     ELSE /\ isSel(result)
          /\ returned.type = "multi"
          /\ Len(returned.paths) = Cardinality(kept)
          /\ \A n \in kept :
               targets(returned.paths[Cardinality({k \in kept : k <= n})],
                       call.operations[n].path)
          /\ returned.anchorPath = returned.paths[1]
          /\ returned.focusPath = returned.paths[Len(returned.paths)]

\* C14 witness: two operations that touch paths which are no siblings have
\* been reconciled into a Multi of those two paths.
C14_Witness ==
  /\ reconciling
  /\ Len(call.operations) = 2
  /\ touching(call.operations) = {1, 2}
  /\ isSel(result)
  /\ returned.type = "multi"
  /\ Len(returned.paths) = 2
  /\ ~siblingsOrEqual(returned.paths[1], returned.paths[2])

constructing == call.fn = "createSelection"

\* the request shapes the constructor is specified for
singleShape(schema) ==
  /\ schemaType(schema) \in {"key", "value", "after", "inside"}
  /\ "path" \in DOMAIN schema

rangeShape(schema) ==
  /\ "anchorPath" \in DOMAIN schema /\ "focusPath" \in DOMAIN schema
  /\ schemaType(schema) \in {"undefined", "multi"}

typeError == isThrow(result) /\ result.error = "TypeError"

\* C15: createSelection ends in a TypeError, and returns no selection, for
\* every request that is neither a type Key/Value/After/Inside with a path
\* nor an anchorPath and a focusPath with type Multi or no type.
C15_OtherShapesAreTypeErrors ==
  (constructing /\ ~singleShape(call.schema) /\ ~rangeShape(call.schema))
  => typeError

\* C15, what the constructor does: the TypeError "Unknown type of selection"
\* is the result exactly when the type is none of Key/Value/After/Inside and
\* anchorPath or focusPath is missing
C15_UnknownTypeOnlyWithoutTypeAndRange ==
  constructing
  => (result = Throw("TypeError", "Unknown type of selection")
        <=> /\ schemaType(call.schema) \notin {"key", "value", "after", "inside"}
            /\ ~("anchorPath" \in DOMAIN call.schema /\ "focusPath" \in DOMAIN call.schema))

exists(path) == isDefined(getIn(json, path))

\* C16: with json and view state fixed, every selection reached from the
\* initial selection by Up/Down/Left/Right steps, extending or not, has an
\* anchorPath, a focusPath and paths that address nodes of json.
C16_NavigatedPathsExist ==
  /\ exists(selection.anchorPath)
  /\ exists(selection.focusPath)
  /\ "paths" \in DOMAIN selection
       => \A n \in 1..Len(selection.paths) : exists(selection.paths[n])

\* C16 witness: navigation has reached a range of two or more paths below
\* the root.
C16_Witness ==
  /\ call.fn \in navigation
  /\ selection.type = "multi"
  /\ Len(selection.paths) >= 2
  /\ Len(selection.focusPath) >= 2

\* the first child of a container in display order: the first stored key of
\* an object, index 0 of an array
firstChild(path) ==
  IF isArray(getIn(json, path)) THEN Append(path, I(0))
  ELSE Append(path, K(stateKeys(getInState(state, path))[1]))

hasChildren(path) ==
  IF isArray(getIn(json, path)) THEN Len(getIn(json, path).items) > 0
  ELSE Len(stateKeys(getInState(state, path))) > 0

\* the container at path shows a first child: it has children and its first
\* child is among the visible paths
hasVisibleChild(path) == hasChildren(path) /\ visibleIndex(firstChild(path)) > 0

copying == call.fn = "selectionToPartialJson"

\* the texts of a list, each on a line of its own
RECURSIVE onLines(_, _)
onLines(texts, n) ==
  IF n = 0 THEN ""
  ELSE IF n = 1 THEN texts[1]
  ELSE onLines(texts, n - 1) \o "\n" \o texts[n]

\* the entry of one selected path: under an object the quoted key and a
\* colon first, then the JSON of the value, then the comma unless it is the
\* only selected item of an array
entryOf(path, underArray, only, indentation) ==
  (IF underArray THEN "" ELSE "\"" \o last(path).key \o "\": ")
    \o stringify(getIn(json, path), indentation, 0)
    \o (IF underArray /\ only THEN "" ELSE ",")

\* C18: selectionToPartialJson of a Multi selection whose focus path is not
\* the root returns one entry per element of paths, in the order of paths,
\* joined by newlines: under an array parent the JSON of the element followed
\* by a comma, without the comma when there is exactly one path; under an
\* object parent the quoted key, a colon, the JSON of the value and a comma,
\* also when there is exactly one path.
C18_PartialJsonOfMulti ==
  (/\ copying
   /\ input.type = "multi"
   /\ input.focusPath # <<>>
   /\ isObjectOrArray(parentOf(input.focusPath))
   /\ \A n \in 1..Len(input.paths) : exists(input.paths[n]) /\ input.paths[n] # <<>>
   /\ isArray(parentOf(input.focusPath))
        \/ \A n \in 1..Len(input.paths) : isKeyName(last(input.paths[n])))
  => LET underArray == isArray(parentOf(input.focusPath))
         entries == [n \in 1..Len(input.paths) |->
                       entryOf(input.paths[n], underArray, Len(input.paths) = 1,
                               call.indentation)]
     IN result = [kind |-> "text", text |-> onLines(entries, Len(entries))]

\* C18 witness: the two elements of the array [[5], 7] have been copied with
\* indentation 2.
C18_Witness ==
  /\ copying
  /\ input.type = "multi"
  /\ isArray(parentOf(input.focusPath))
  /\ Len(input.paths) = 2
  /\ call.indentation = 2
  /\ result = [kind |-> "text", text |-> "[\n  5\n],\n7,"]

(***************************************************************************)
(* C19: the query of createQuery is a pipeline in the fixed order filter,  *)
(* sort, projection, whichever of the three are requested: its first stage *)
(* is the filter expression when a filter is given and [*] otherwise, a    *)
(* sort stage (reversed for the direction desc) follows it joined by " | ",*)
(* and the projection comes last; the empty request gives exactly [*].     *)
(* Neither createQuery nor executeQuery changes the input data.            *)
(***************************************************************************)
requested(queryOptions, part) == part \in DOMAIN queryOptions

filterText(filter) ==
  "[? " \o fieldName(filter.field) \o " " \o filter.relation \o " "
    \o literal(parseString(filter.value)) \o "]"

sortText(sort) ==
  IF sort.direction = "desc"
    THEN "reverse(sort_by(@, &" \o fieldName(sort.field) \o "))"
    ELSE "sort_by(@, &" \o fieldName(sort.field) \o ")"

inPipelineOrder(queryOptions, created) ==
  LET query == created.query
      opening == IF requested(queryOptions, "filter") THEN "filter" ELSE "all"
      openingText == IF requested(queryOptions, "filter")
                     THEN filterText(queryOptions.filter) ELSE "[*]"
      sortKinds == IF requested(queryOptions, "sort") THEN <<"sort">> ELSE <<>>
      sortedText == IF requested(queryOptions, "sort")
                      THEN " | " \o sortText(queryOptions.sort) ELSE ""
      shown == IF requested(queryOptions, "projection") THEN <<"projection">> ELSE <<>>
      shownText == IF requested(queryOptions, "projection")
                     THEN stageText(query, Len(query)) ELSE ""
  IN /\ [n \in 1..Len(query) |-> query[n].stage] = <<opening>> \o sortKinds \o shown
     /\ requested(queryOptions, "filter") =>
          /\ query[1].field = queryOptions.filter.field
          /\ query[1].relation = queryOptions.filter.relation
     /\ requested(queryOptions, "sort") =>
          /\ query[2].field = queryOptions.sort.field
          /\ query[2].reversed <=> queryOptions.sort.direction = "desc"
     /\ requested(queryOptions, "projection") =>
          query[Len(query)].fields = queryOptions.projection.fields
     /\ created.text = openingText \o sortedText \o shownText
     /\ queryOptions = [none |-> TRUE] => created.text = "[*]"

strictPrefix(ancestor, path) ==
  Len(ancestor) < Len(path) /\ SubSeq(path, 1, Len(ancestor)) = ancestor

expanding == call.fn = "expandSelection"

C20_DegenerateRangeIsOnePath ==
  expanding =>
    /\ call.anchorPath = call.focusPath => result = Paths(<<call.anchorPath>>)
    /\ strictPrefix(call.anchorPath, call.focusPath) => result = Paths(<<call.anchorPath>>)
    /\ strictPrefix(call.focusPath, call.anchorPath) => result = Paths(<<call.focusPath>>)

\* a scalar and a path below it: no container and no keys to look at
C20_Witness ==
  /\ expanding
  /\ strictPrefix(call.focusPath, call.anchorPath)
  /\ ~isObjectOrArray(getIn(json, call.focusPath))
  /\ result = Paths(<<call.focusPath>>)

(***************************************************************************)
(* C21: a Multi made by createSelection from an anchorPath and a focusPath *)
(* keeps the direction of the request: its anchorPath is the end of the    *)
(* expanded range that equals or is an ancestor of the requested           *)
(* anchorPath, and its focusPath the end that equals or is an ancestor of  *)
(* the requested focusPath, also when one or both requested paths lie      *)
(* deeper than the range and are absorbed into their ancestor.             *)
(***************************************************************************)
ranging ==
  /\ constructing
  /\ schemaType(call.schema) \notin {"key", "value", "after", "inside"}
  /\ "anchorPath" \in DOMAIN call.schema
  /\ "focusPath" \in DOMAIN call.schema
  /\ isSel(result)
  /\ result.selection.paths # <<>>

keepsDirection(schema, sel) ==
  /\ pathStartsWith(schema.anchorPath, sel.anchorPath)
  /\ pathStartsWith(schema.focusPath, sel.focusPath)

C21_RangeKeepsDirection == ranging => keepsDirection(call.schema, result.selection)

\* both requested paths lie below the ends of the range, the anchor below
\* the first one and the focus below the last one
bothAbsorbedForward(schema, paths) ==
  /\ first(paths) # last(paths)
  /\ schema.anchorPath # first(paths)
  /\ schema.focusPath # last(paths)
  /\ pathStartsWith(schema.anchorPath, first(paths))
  /\ pathStartsWith(schema.focusPath, last(paths))

\* C21, the part that holds: the direction is kept unless the anchor is
\* absorbed into the first path and the focus into the last path; then the
\* two ends are swapped
C21_RangeKeepsDirectionUnlessBothAbsorbed ==
  ranging =>
    IF bothAbsorbedForward(call.schema, result.selection.paths)
      THEN /\ result.selection.anchorPath = last(result.selection.paths)
           /\ result.selection.focusPath = first(result.selection.paths)
      ELSE keepsDirection(call.schema, result.selection)

(***************************************************************************)
(* C22: the "next inside" step from a Value selection at a path returns a  *)
(* Value selection on the next sibling of that path in the visible order   *)
(* of the children of its parent, or, when there is no later sibling, an   *)
(* After selection on the path itself; it never returns a descendant of    *)
(* the path, also when the path addresses an expanded object or array.     *)
(* The step is createSelection of a value with nextInside and without      *)
(* next, on a path that is visible.                                        *)
(***************************************************************************)
steppingInside ==
  /\ constructing
  /\ schemaType(call.schema) = "value"
  /\ "path" \in DOMAIN call.schema
  /\ ~schemaFlag(call.schema, "next")
  /\ schemaFlag(call.schema, "nextInside")
  /\ visibleIndex(call.schema.path) > 0

\* the children of the container at path in the order they are shown
childrenInOrder(path) ==
  IF isArray(getIn(json, path))
    THEN [i \in 1..Len(getIn(json, path).items) |-> Append(path, I(i - 1))]
    ELSE [i \in 1..Len(stateKeys(getInState(state, path))) |->
            Append(path, K(stateKeys(getInState(state, path))[i]))]

hasLaterSibling(path) ==
  /\ path # <<>>
  /\ indexOf(childrenInOrder(initial(path)), path) + 1 < Len(childrenInOrder(initial(path)))

laterSibling(path) ==
  childrenInOrder(initial(path))[indexOf(childrenInOrder(initial(path)), path) + 2]

nextAmongSiblings(path) ==
  IF hasLaterSibling(path)
    THEN result = Sel(Merge(Single("value", laterSibling(path)), [edit |-> FALSE]))
    ELSE result = Sel(Single("after", path))

C22_NextInsideStaysAmongSiblings ==
  steppingInside =>
    /\ nextAmongSiblings(call.schema.path)
    /\ ~strictPrefix(call.schema.path, returned.focusPath)

\* C22, the part that holds: from a path that shows no child of its own the
\* step goes to the later sibling or to After; from an expanded object or
\* array below the root that shows a child it goes to that first child
C22_NextInsideEntersExpandedContainer ==
  steppingInside =>
    IF /\ call.schema.path # <<>>
       /\ isObjectOrArray(getIn(json, call.schema.path))
       /\ hasVisibleChild(call.schema.path)
      THEN result = Sel(Merge(Single("value", firstChild(call.schema.path)), [edit |-> FALSE]))
      ELSE nextAmongSiblings(call.schema.path)

(***************************************************************************)
(* C23: Right then Left, both not extending, is a round trip on the caret  *)
(* stops.  For a Key, Value, After or Inside selection at a visible caret  *)
(* stop that has a successor, getSelectionLeft of the result of            *)
(* getSelectionRight has the type, the anchorPath and the focusPath of the *)
(* selection; and Left then Right returns to a selection at a caret stop   *)
(* that has a predecessor.                                                 *)
(***************************************************************************)
caretTypes == {"key", "value", "after", "inside"}

\* the last call was fn on a selection at caret stop n, not extending, and
\* the next call is back, not extending, on what the caller then holds
thereAndBack(fn, back, n) ==
  /\ call.fn = fn
  /\ ~call.keepAnchorPath
  /\ call.selection.type \in caretTypes
  /\ atCaret(call.selection, n)
  /\ call'.fn = back
  /\ ~call'.keepAnchorPath

sameStop(r, sel) ==
  /\ isSel(r)
  /\ r.selection.type = sel.type
  /\ r.selection.anchorPath = sel.anchorPath
  /\ r.selection.focusPath = sel.focusPath

C23_RightLeftRoundTrip ==
  [][/\ \A n \in 1..(Len(caretsNow) - 1) :
          thereAndBack("getSelectionRight", "getSelectionLeft", n)
            => sameStop(result', call.selection)
     /\ \A n \in 2..Len(caretsNow) :
          thereAndBack("getSelectionLeft", "getSelectionRight", n)
            => sameStop(result', call.selection)]_vars

\* a Left step from the caret stop a Right step has just moved to, back to
\* the stop before it
C23_Witness ==
  /\ call.fn = "getSelectionLeft"
  /\ ~call.keepAnchorPath
  /\ \E n \in 2..Len(caretsNow) :
       /\ atCaret(call.selection, n)
       /\ call.selection.type \in caretTypes
       /\ isSel(result)
       /\ atCaret(returned, n - 1)
       /\ returned.anchorPath = returned.focusPath
       /\ selection = returned

(***************************************************************************)
(* C24: navigation in one direction reaches the boundary.  With json and   *)
(* the view state fixed, feeding the result of getSelectionDown back into  *)
(* getSelectionDown with the same extend flag returns null after finitely  *)
(* many steps, and likewise for getSelectionUp: after the first step the   *)
(* focus path moves strictly forward (Down) or strictly backward (Up)      *)
(* among the visible paths at every step, so no selection comes twice.     *)
(* The position of the focus path among the visible paths is the measure:  *)
(* it is bounded by their number, no step throws, and every repeated step  *)
(* that returns a selection moves it strictly.  A valid selection is one   *)
(* whose anchorPath and focusPath address nodes of json.                   *)
(***************************************************************************)
\* the last call was fn and returned a selection, and the next call is fn
\* again on that selection with the same flag
repeated(fn) ==
  /\ call.fn = fn
  /\ isSel(result)
  /\ call'.fn = fn
  /\ call'.keepAnchorPath = call.keepAnchorPath

focusIndex(r) == visibleIndex(r.selection.focusPath)

\* the next call is a step up or down on a selection whose anchorPath and
\* focusPath address nodes of json
firstStep ==
  /\ call'.fn \in vertical
  /\ exists(call'.selection.anchorPath)
  /\ exists(call'.selection.focusPath)

C24_VerticalStepsAdvance ==
  [][/\ repeated("getSelectionDown") =>
          /\ focusIndex(result) >= 1
          /\ ~isThrow(result')
          /\ isSel(result') =>
               /\ focusIndex(result') > focusIndex(result)
               /\ focusIndex(result') <= Len(visibleNow)
          /\ focusIndex(result) = Len(visibleNow) => result' = Null
     /\ repeated("getSelectionUp") =>
          /\ focusIndex(result) >= 1
          /\ ~isThrow(result')
          /\ isSel(result') =>
               /\ focusIndex(result') < focusIndex(result)
               /\ focusIndex(result') >= 1
          /\ focusIndex(result) = 1 => result' = Null
     /\ firstStep => ~isThrow(result')]_vars

\* an extending Down step has been repeated down to the last visible path
\* of a document that shows four paths or more
C24_Witness ==
  /\ call.fn = "getSelectionDown"
  /\ call.keepAnchorPath
  /\ call.selection.type = "multi"
  /\ Len(visibleNow) >= 4
  /\ visibleIndex(call.selection.focusPath) = Len(visibleNow)
  /\ result = Null
====
